---------------------------- MODULE Spec2Model ----------------------------
(***************************************************************************)
(* Model of MediaToVideo (media_to_video/__main__.py): the resumable       *)
(* selection and bookkeeping of images, videos and audio over a sequence   *)
(* of renders, the renders heap kept in memory and in its file, and the    *)
(* render queue.                                                           *)
(*                                                                         *)
(* Indices are Python's (0-based); a TLA+ sequence s holds Python's s[i]   *)
(* at s[i + 1].  All times are in milliseconds: the source keeps seconds   *)
(* as floats (duration / 1000), the model keeps the numerators.            *)
(*                                                                         *)
(* render() and _render() are modelled statement group by statement group  *)
(* (pc), so that an exception or a KeyboardInterrupt can leave them        *)
(* between any two.  The collaborators are modelled by their contracts:    *)
(* GetMediaFiles yields the three sorted lists, AudioFileClip.duration is  *)
(* the duration of the file's metadata, write_videofile writes one file or *)
(* raises, and the artifact name (the time of day) is never repeated.      *)
(* Heap and RenderDatum (media_to_video/heap.py, serialization.py) are     *)
(* modelled as an ordered collection with push, peek and whole-file        *)
(* serialize / deserialize, and get_next() as the stored triple.           *)
(***************************************************************************)
EXTENDS Integers, Sequences, FiniteSets

\* ---- bounds of the model
MaxImages == 3
MaxVideos == 2
MaxAudios == 2
MaxRenders == 2
MaxRestarts == 1

\* ---- values the catalog and the constructor arguments are drawn from
IntervalDurations == {8}               \* interval_duration, seconds
AudioDurations == {5000, 20000}        \* ['Audio']['duration'], ms
VideoDurations == {12000}              \* ['Video']['duration'], ms
MsPerSecond == 1000

\* ---- the exceptions of the program, by what raises them
ExhaustionError == "M2VException: No more media available"
InsufficientMediaError == "M2VException: Not enough images or videos."
AudioExhaustedError == "M2VException: Not enough audio_files"
NoClipsError == "M2VException: No more images or videos available"
AudioIndexError == "IndexError"
RenderFailure == "RenderFailure"
KeyboardInterrupt == "KeyboardInterrupt"
NoError == "none"

VARIABLES
    \* the catalog and the constructor arguments (fixed for a behaviour)
    image_files,        \* sequence of image descriptors
    video_files,        \* sequence of video durations (ms)
    audio_files,        \* sequence of audio durations (ms)
    interval_duration,  \* seconds
    \* the MediaToVideo object of the running process
    dont_load_renders_heap,
    ctor_audio_index,   \* the audio_index argument of the constructor
    vid_time,
    max_duration,
    audio_index,
    image_files_range,
    video_files_range,
    renders_heap,       \* Heap in memory: Records in push order
    render_queue,       \* multiprocessing.Queue: identifiers not yet read
    \* control state of render() / _render()
    pc,
    continuous,
    clips,              \* the list _get_clips() hands to _composite_clips()
    render_file_path,
    error,              \* the exception that ended the last render() call
    propagated,         \* TRUE when render() raised it to its caller
    \* what outlives the process
    heap_file,          \* the renders heap file
    output_dir,         \* artifacts in the output directory
    clock,              \* the datetime the artifact names are taken from
    restarts,           \* how many times the process has been started again
    \* history (not read by the program)
    heap_before,        \* renders_heap when the current _render() began
    file_before,        \* heap_file when the current _render() began
    trace,              \* the steps the current _render() has taken
    put_log,            \* every identifier put on the queue by this object
    placed_log,         \* placed_log[k]: the clips of the render of artifact k
    run_heap_base,      \* Len(renders_heap) when the current render() began
    run_put_base,       \* Len(put_log) when the current render() began
    interrupted,        \* a KeyboardInterrupt hit this process
    expected_next       \* what the previous process would have gone on from

catalog == <<image_files, video_files, audio_files, interval_duration>>
object == <<dont_load_renders_heap, ctor_audio_index, vid_time, max_duration,
            audio_index, image_files_range, video_files_range, renders_heap,
            render_queue>>
control == <<pc, continuous, clips, render_file_path, error, propagated>>
disk == <<heap_file, output_dir, clock, restarts>>
history == <<heap_before, file_before, trace, put_log, placed_log,
             run_heap_base, run_put_base, interrupted, expected_next>>
vars == <<catalog, object, control, disk, history>>

\* ---- helpers
SeqsUpTo(S, n) == UNION {[1..k -> S] : k \in 0..n}
Last(s) == s[Len(s)]
Range(s) == {s[i] : i \in 1..Len(s)}
\* Python's s[a:b] for 0 <= a, as the set of indices it selects
SliceIndices(s, a, b) == {i \in 0..(Len(s) - 1) : a <= i /\ i < b}


\* ---- Heap (media_to_video/heap.py) and RenderDatum
\* (media_to_video/serialization.py)
HeapPush(heap, datum) == Append(heap, datum)
\* peek(): <<>> for None, else <<the most recently pushed Record>>
HeapPeek(heap) == IF heap = <<>> THEN <<>> ELSE <<Last(heap)>>
\* serialize() overwrites the whole file with the collection in memory
HeapSerialize(heap, file) == heap
\* deserialize() replaces the collection in memory by the file's; a missing
\* file (never written: <<>>) leaves the store empty
HeapDeserialize(heap, file) == file
\* RenderDatum.get_next(): the audio index and the windows to go on from
get_next(datum) ==
    <<datum.audio_index, datum.images_range, datum.videos_range>>

\* (mutant) out of media only once both windows end at the catalog's end
out_of_media_AtCatalogEnd(datum) ==
    /\ datum.images_range[2] >= Len(image_files)
    /\ datum.videos_range[2] >= Len(video_files)

\* ---- _out_of_media (lines 324-338)
out_of_media(datum) ==
    LET imgs_range == datum.images_range
        vids_range == datum.videos_range
    IN  imgs_range[2] - imgs_range[1] = 0 /\ vids_range[2] - vids_range[1] = 0

\* ---- _get_number_of_extra_images (lines 340-374), for an audio index in
\* range; the caller of this operator handles the IndexError of line 351
get_number_of_extra_images(datum) ==
    LET audio_duration_ms == audio_files[datum.audio_index + 1]
        imgs_range == datum.images_range
        vids_range == datum.videos_range
        total_non_audio_media == Len(image_files) + Len(video_files)
        remaining_images == total_non_audio_media - imgs_range[2] + vids_range[2]
        min_images_needed ==
            audio_duration_ms \div (MsPerSecond * interval_duration)
    IN  remaining_images - min_images_needed

\* ---- _get_image_clips (lines 191-214): the walk from index i on, with the
\* clock at t; last is last_index so far.  Yields the clips appended, the
\* clock and last_index.
RECURSIVE ImageWalk(_, _, _, _, _)
ImageWalk(i, t, acc, last, max_d) ==
    IF i >= Len(image_files)
    THEN [clips |-> acc, vid_time |-> t, last_index |-> last]
    ELSE IF t < max_d
         THEN ImageWalk(i + 1, t + interval_duration * MsPerSecond,
                        Append(acc, [kind |-> "Image", index |-> i, start |-> t,
                                     duration |-> interval_duration * MsPerSecond]),
                        i, max_d)
         ELSE [clips |-> acc, vid_time |-> t, last_index |-> i]

\* (mutant) the window ends one past the last image placed
get_image_clips_EndPastPlaced(image_index, t, max_d) ==
    LET w == ImageWalk(image_index, t, <<>>, image_index, max_d)
    IN  [clips |-> w.clips, vid_time |-> w.vid_time,
         range |-> <<image_index, image_index + Len(w.clips)>>]

get_image_clips(image_index, t, max_d) ==
    LET w == ImageWalk(image_index, t, <<>>, image_index, max_d)
    IN  [clips |-> w.clips, vid_time |-> w.vid_time,
         range |-> <<image_index, w.last_index>>]

\* ---- _get_video_clips (lines 216-245)
RECURSIVE VideoWalk(_, _, _, _, _)
VideoWalk(i, t, acc, last, max_d) ==
    IF i >= Len(video_files)
    THEN [clips |-> acc, vid_time |-> t, last_index |-> last]
    ELSE IF t < max_d
         THEN VideoWalk(i + 1, t + video_files[i + 1],
                        Append(acc, [kind |-> "Video", index |-> i, start |-> t,
                                     duration |-> video_files[i + 1]]),
                        i, max_d)
         ELSE [clips |-> acc, vid_time |-> t, last_index |-> i]

\* (mutant) the window ends one past the last video visited
get_video_clips_EndPlusOne(video_index, t, max_d) ==
    LET w == VideoWalk(video_index, t, <<>>, video_index, max_d)
    IN  [clips |-> w.clips, vid_time |-> w.vid_time,
         range |-> <<video_index, w.last_index + 1>>]

get_video_clips(video_index, t, max_d) ==
    LET w == VideoWalk(video_index, t, <<>>, video_index, max_d)
    IN  [clips |-> w.clips, vid_time |-> w.vid_time,
         range |-> <<video_index, w.last_index>>]

\* (mutant) the walks begin at the windows' starts instead of their ends
get_clips_FromWindowStart(img_range, vid_range, t, max_d) ==
    LET im == get_image_clips(img_range[1], t, max_d)
        vi == get_video_clips(vid_range[1], im.vid_time, max_d)
    IN  [clips |-> im.clips \o vi.clips, vid_time |-> vi.vid_time,
         image_files_range |-> im.range, video_files_range |-> vi.range]

\* ---- _get_clips (lines 186-189): images first, then videos, on one clock
get_clips(img_range, vid_range, t, max_d) ==
    LET im == get_image_clips(img_range[2], t, max_d)
        vi == get_video_clips(vid_range[2], im.vid_time, max_d)
    IN  [clips |-> im.clips \o vi.clips, vid_time |-> vi.vid_time,
         image_files_range |-> im.range, video_files_range |-> vi.range]

\* ---- _image_files_used / _video_files_used (lines 314-322)
image_files_used(r) == SliceIndices(image_files, r[1], r[2])
video_files_used(r) == SliceIndices(video_files, r[1], r[2])

\* (mutant) the datum keeps the audio index used, not the next one
NewDatum_SameAudioIndex(path, a_index, img_range, vid_range) ==
    [main_key |-> path,
     date_created |-> path,
     images |-> image_files_used(img_range),
     videos |-> video_files_used(vid_range),
     audio |-> a_index,
     audio_index |-> a_index,
     images_range |-> img_range,
     videos_range |-> vid_range,
     finished_render |-> TRUE]

\* ---- the RenderDatum built by _render (lines 170-180)
NewDatum(path, a_index, img_range, vid_range) ==
    [main_key |-> path,
     date_created |-> path,
     images |-> image_files_used(img_range),
     videos |-> video_files_used(vid_range),
     audio |-> a_index,
     audio_index |-> a_index + 1,
     images_range |-> img_range,
     videos_range |-> vid_range,
     finished_render |-> TRUE]

\* (mutant) the last datum is never read: the object's own fields go on
NextContext_Stale(heap, a_index, img_range, vid_range) ==
    <<a_index, img_range, vid_range>>

\* ---- the scheduling context _render goes on from (lines 147-156, the
\* assignment of line 154): the last datum's when there is one, else the
\* object's own
NextContext(heap, a_index, img_range, vid_range) ==
    IF HeapPeek(heap) = <<>>
    THEN <<a_index, img_range, vid_range>>
    ELSE get_next(HeapPeek(heap)[1])


\* ---- the state after MediaToVideo(...) on a directory with no heap file
Init ==
    /\ image_files \in {[i \in 1..n |-> "Image"] : n \in 0..MaxImages}
    /\ video_files \in SeqsUpTo(VideoDurations, MaxVideos)
    /\ audio_files \in SeqsUpTo(AudioDurations, MaxAudios)
    /\ interval_duration \in IntervalDurations
    /\ dont_load_renders_heap \in BOOLEAN
    /\ ctor_audio_index \in 0..Len(audio_files)
    /\ vid_time = 0
    /\ max_duration = 0
    /\ audio_index = ctor_audio_index
    /\ image_files_range = <<0, 0>>
    /\ video_files_range = <<0, 0>>
    /\ renders_heap = <<>>
    /\ render_queue = <<>>
    /\ pc = "idle"
    /\ continuous = FALSE
    /\ clips = <<>>
    /\ render_file_path = 0
    /\ error = NoError
    /\ propagated = FALSE
    /\ heap_file = <<>>
    /\ output_dir = {}
    /\ clock = 0
    /\ restarts = 0
    /\ heap_before = <<>>
    /\ file_before = <<>>
    /\ trace = <<>>
    /\ put_log = <<>>
    /\ placed_log = <<>>
    /\ run_heap_base = 0
    /\ run_put_base = 0
    /\ interrupted = FALSE
    /\ expected_next = <<>>

\* ---- an exception e leaves _render: render(continuous=True) catches
\* KeyboardInterrupt, M2VException and IndexError and breaks (lines 134-139);
\* anything else, and everything in single-shot mode, reaches the caller
\* (mutant) the loop catches the interrupt only
CaughtByLoop_OnlyInterrupt == {KeyboardInterrupt}

CaughtByLoop ==
    {KeyboardInterrupt, ExhaustionError, InsufficientMediaError,
     AudioExhaustedError, NoClipsError, AudioIndexError}

Raise(e) ==
    /\ pc' = "returned"
    /\ error' = e
    /\ propagated' = ~(continuous /\ e \in CaughtByLoop)

\* ---- render(continuous) is called (lines 124-131, 142-143); a process
\* that was interrupted is on its way out and is not asked to render again
Render(c) ==
    /\ pc \in {"idle", "returned"}
    /\ ~interrupted
    /\ continuous' = c
    /\ pc' = "render_start"
    /\ error' = NoError
    /\ propagated' = FALSE
    /\ run_heap_base' = Len(renders_heap)
    /\ run_put_base' = Len(put_log)
    /\ trace' = <<>>
    /\ UNCHANGED <<catalog, object, clips, render_file_path, disk, heap_before,
                   file_before, put_log, placed_log, interrupted,
                   expected_next>>

\* ---- _render, lines 147-151: peek and the exhaustion check
BeginRender ==
    /\ pc = "render_start"
    /\ heap_before' = renders_heap
    /\ file_before' = heap_file
    /\ LET datum == HeapPeek(renders_heap)
       IN  IF datum = <<>>
           THEN /\ trace' = <<"peek">>
                /\ pc' = "audio"
                /\ UNCHANGED <<error, propagated>>
           ELSE /\ trace' = <<"peek", "out_of_media">>
                /\ IF out_of_media(datum[1])
                   THEN Raise(ExhaustionError)
                   ELSE /\ pc' = "sufficiency"
                        /\ UNCHANGED <<error, propagated>>
    /\ UNCHANGED <<catalog, object, continuous, clips, render_file_path, disk,
                   put_log, placed_log, run_heap_base, run_put_base,
                   interrupted, expected_next>>

\* ---- _render, lines 152-156: the sufficiency check and get_next()
Sufficiency ==
    /\ pc = "sufficiency"
    /\ trace' = Append(trace, "sufficiency")
    /\ LET datum == HeapPeek(renders_heap)[1]
       IN  IF datum.audio_index >= Len(audio_files)
           THEN /\ Raise(AudioExhaustedError)
                /\ UNCHANGED <<audio_index, image_files_range, video_files_range>>
           ELSE IF get_number_of_extra_images(datum) <= 0
           THEN /\ Raise(InsufficientMediaError)
                /\ UNCHANGED <<audio_index, image_files_range, video_files_range>>
           ELSE /\ LET next == NextContext(renders_heap, audio_index,
                                            image_files_range,
                                            video_files_range)
                   IN  /\ audio_index' = next[1]
                       /\ image_files_range' = next[2]
                       /\ video_files_range' = next[3]
                /\ pc' = "audio"
                /\ UNCHANGED <<error, propagated>>
    /\ UNCHANGED <<catalog, dont_load_renders_heap, ctor_audio_index, vid_time,
                   max_duration, renders_heap, render_queue, continuous, clips,
                   render_file_path, disk, heap_before, file_before, put_log,
                   placed_log, run_heap_base, run_put_base, interrupted,
                   expected_next>>

\* ---- _render, lines 160-161, and _get_audio_clip (lines 247-256): the
\* IndexError of line 252 is not the M2VException that line 255 catches
GetAudioClip ==
    /\ pc = "audio"
    /\ trace' = Append(trace, "audio")
    /\ expected_next' = <<>>
    /\ IF audio_index >= Len(audio_files)
       THEN /\ Raise(AudioIndexError)
            /\ UNCHANGED max_duration
       ELSE /\ max_duration' = audio_files[audio_index + 1]
            /\ pc' = "clips"
            /\ UNCHANGED <<error, propagated>>
    /\ UNCHANGED <<catalog, dont_load_renders_heap, ctor_audio_index, vid_time,
                   audio_index, image_files_range, video_files_range,
                   renders_heap, render_queue, continuous, clips,
                   render_file_path, disk, heap_before, file_before, put_log,
                   placed_log, run_heap_base, run_put_base, interrupted>>

\* ---- _render, line 165: self._get_clips()
GetClips ==
    /\ pc = "clips"
    /\ trace' = Append(trace, "clips")
    /\ LET r == get_clips(image_files_range, video_files_range, vid_time,
                          max_duration)
       IN  /\ clips' = r.clips
           /\ vid_time' = r.vid_time
           /\ image_files_range' = r.image_files_range
           /\ video_files_range' = r.video_files_range
    /\ pc' = "composite"
    /\ UNCHANGED <<catalog, dont_load_renders_heap, ctor_audio_index,
                   max_duration, audio_index, renders_heap, render_queue,
                   continuous, render_file_path, error, propagated, disk,
                   heap_before, file_before, put_log, placed_log,
                   run_heap_base, run_put_base, interrupted, expected_next>>

\* ---- _composite_clips (lines 258-278) when the Renderer succeeds: no clips
\* raises before the Renderer is called; else one artifact is written, named
\* by the time.  After MaxRenders artifacts the Renderer only fails.
CompositeClips ==
    /\ pc = "composite"
    /\ IF Len(clips) = 0
       THEN /\ Raise(NoClipsError)
            /\ UNCHANGED <<render_file_path, disk, placed_log, trace>>
       ELSE /\ clock < MaxRenders
            /\ trace' = Append(trace, "renderer")
            /\ clock' = clock + 1
            /\ render_file_path' = clock + 1
            /\ output_dir' = output_dir \cup {clock + 1}
            /\ placed_log' = Append(placed_log, clips)
            /\ pc' = "push"
            /\ UNCHANGED <<heap_file, restarts, error, propagated>>
    /\ UNCHANGED <<catalog, object, continuous, clips, heap_before,
                   file_before, put_log, run_heap_base, run_put_base,
                   interrupted, expected_next>>

\* (mutant) the datum is pushed and saved before the Renderer has written
RenderFails_AfterPush ==
    /\ pc = "composite"
    /\ Len(clips) > 0
    /\ trace' = Append(trace, "renderer")
    /\ renders_heap' =
           HeapPush(renders_heap,
                    NewDatum(clock + 1, audio_index, image_files_range,
                             video_files_range))
    /\ heap_file' = HeapSerialize(renders_heap', heap_file)
    /\ Raise(RenderFailure)
    /\ UNCHANGED <<catalog, dont_load_renders_heap, ctor_audio_index, vid_time,
                   max_duration, audio_index, image_files_range,
                   video_files_range, render_queue, continuous, clips,
                   render_file_path, output_dir, clock, restarts, heap_before,
                   file_before, put_log, placed_log, run_heap_base,
                   run_put_base, interrupted, expected_next>>

\* ---- _composite_clips when write_videofile (line 277) raises
RenderFails ==
    /\ pc = "composite"
    /\ Len(clips) > 0
    /\ trace' = Append(trace, "renderer")
    /\ Raise(RenderFailure)
    /\ UNCHANGED <<catalog, object, continuous, clips, render_file_path, disk,
                   heap_before, file_before, put_log, placed_log,
                   run_heap_base, run_put_base, interrupted, expected_next>>


\* ---- _render, lines 168-182: the datum of the completed render is pushed
PushDatum ==
    /\ pc = "push"
    /\ trace' = Append(trace, "push")
    /\ renders_heap' =
           HeapPush(renders_heap,
                    NewDatum(render_file_path, audio_index, image_files_range,
                             video_files_range))
    /\ pc' = "serialize"
    /\ UNCHANGED <<catalog, dont_load_renders_heap, ctor_audio_index, vid_time,
                   max_duration, audio_index, image_files_range,
                   video_files_range, render_queue, continuous, clips,
                   render_file_path, error, propagated, disk, heap_before,
                   file_before, put_log, placed_log, run_heap_base,
                   run_put_base, interrupted, expected_next>>

\* ---- _render, line 183: the heap is saved to its file
Serialize ==
    /\ pc = "serialize"
    /\ trace' = Append(trace, "serialize")
    /\ heap_file' = HeapSerialize(renders_heap, heap_file)
    /\ pc' = "reset"
    /\ UNCHANGED <<catalog, object, continuous, clips, render_file_path, error,
                   propagated, output_dir, clock, restarts, heap_before,
                   file_before,
                   put_log, placed_log, run_heap_base, run_put_base,
                   interrupted, expected_next>>

\* ---- _render, line 184, and its return into render(): to the put of line
\* 141 in continuous mode, to the caller otherwise
ResetVidTime ==
    /\ pc = "reset"
    /\ vid_time' = 0
    /\ pc' = IF continuous THEN "put" ELSE "returned"
    /\ UNCHANGED <<catalog, dont_load_renders_heap, ctor_audio_index,
                   max_duration, audio_index, image_files_range,
                   video_files_range, renders_heap, render_queue, continuous,
                   clips, render_file_path, error, propagated, disk, history>>

\* (mutant) the key of the oldest Record is put, not of the newest
QueuePut_Oldest ==
    /\ pc = "put"
    /\ render_queue' = Append(render_queue, renders_heap[1].main_key)
    /\ put_log' = Append(put_log, renders_heap[1].main_key)
    /\ pc' = "render_start"
    /\ trace' = <<>>
    /\ UNCHANGED <<catalog, dont_load_renders_heap, ctor_audio_index, vid_time,
                   max_duration, audio_index, image_files_range,
                   video_files_range, renders_heap, continuous, clips,
                   render_file_path, error, propagated, disk, heap_before,
                   file_before, placed_log, run_heap_base, run_put_base,
                   interrupted, expected_next>>

\* ---- render, line 141: the path of the rendered video is put on the queue
\* (an unbounded multiprocessing.Queue), and the loop goes round
QueuePut ==
    /\ pc = "put"
    /\ render_queue' = Append(render_queue, HeapPeek(renders_heap)[1].main_key)
    /\ put_log' = Append(put_log, HeapPeek(renders_heap)[1].main_key)
    /\ pc' = "render_start"
    /\ trace' = <<>>
    /\ UNCHANGED <<catalog, dont_load_renders_heap, ctor_audio_index, vid_time,
                   max_duration, audio_index, image_files_range,
                   video_files_range, renders_heap, continuous, clips,
                   render_file_path, error, propagated, disk, heap_before,
                   file_before, placed_log, run_heap_base, run_put_base,
                   interrupted, expected_next>>

\* ---- a consumer reads the render queue (render_queue.get())
QueueGet ==
    /\ render_queue # <<>>
    /\ render_queue' = Tail(render_queue)
    /\ UNCHANGED <<catalog, dont_load_renders_heap, ctor_audio_index, vid_time,
                   max_duration, audio_index, image_files_range,
                   video_files_range, renders_heap, control, disk, history>>

\* ---- a KeyboardInterrupt arrives during render(): inside the try of lines
\* 132-136 the loop catches it and breaks; at line 141, and in single-shot
\* mode, it reaches the caller
InCall ==
    {"render_start", "sufficiency", "audio", "clips", "composite", "push",
     "serialize", "reset", "put"}

Interrupt ==
    /\ pc \in InCall
    /\ pc' = "returned"
    /\ error' = KeyboardInterrupt
    /\ propagated' = (~continuous \/ pc = "put")
    /\ interrupted' = TRUE
    /\ UNCHANGED <<catalog, object, continuous, clips, render_file_path, disk,
                   heap_before, file_before, trace, put_log, placed_log,
                   run_heap_base, run_put_base, expected_next>>

\* ---- the process ends and a new one constructs MediaToVideo on the same
\* directory, with the same audio_index argument (lines 100-115)
Restart(dont_load) ==
    /\ pc \in {"idle", "returned"}
    /\ restarts < MaxRestarts
    /\ dont_load_renders_heap' = dont_load
    /\ vid_time' = 0
    /\ max_duration' = 0
    /\ audio_index' = ctor_audio_index
    /\ renders_heap' = IF dont_load THEN <<>>
                       ELSE HeapDeserialize(<<>>, heap_file)
    /\ image_files_range' = <<0, 0>>
    /\ video_files_range' = <<0, 0>>
    /\ render_queue' = <<>>
    /\ pc' = "idle"
    /\ continuous' = FALSE
    /\ clips' = <<>>
    /\ render_file_path' = 0
    /\ error' = NoError
    /\ propagated' = FALSE
    /\ heap_before' = <<>>
    /\ file_before' = <<>>
    /\ trace' = <<>>
    /\ put_log' = <<>>
    /\ run_heap_base' = 0
    /\ run_put_base' = 0
    /\ interrupted' = FALSE
    /\ expected_next' =
           IF ~dont_load /\ ~interrupted /\ renders_heap # <<>>
           THEN <<NextContext(renders_heap, audio_index, image_files_range,
                              video_files_range)>>
           ELSE <<>>
    /\ restarts' = restarts + 1
    /\ UNCHANGED <<catalog, ctor_audio_index, heap_file, output_dir, clock,
                   placed_log>>

Next ==
    \/ \E c \in BOOLEAN : Render(c)
    \/ BeginRender
    \/ Sufficiency
    \/ GetAudioClip
    \/ GetClips
    \/ CompositeClips
    \/ RenderFails
    \/ PushDatum
    \/ Serialize
    \/ ResetVidTime
    \/ QueuePut
    \/ QueueGet
    \/ Interrupt
    \/ \E dont_load \in BOOLEAN : Restart(dont_load)

Spec == Init /\ [][Next]_vars


\* ---- one process left to itself: no interrupt and no restart, and every
\* statement of render() / _render() that can run does run (the program is
\* sequential and single-threaded); the caller and the queue's reader are
\* under no obligation
RenderStep ==
    \/ BeginRender
    \/ Sufficiency
    \/ GetAudioClip
    \/ GetClips
    \/ CompositeClips
    \/ RenderFails
    \/ PushDatum
    \/ Serialize
    \/ ResetVidTime
    \/ QueuePut

NextLive ==
    \/ \E c \in BOOLEAN : Render(c)
    \/ RenderStep
    \/ QueueGet

LiveSpec == Init /\ [][NextLive]_vars /\ WF_vars(RenderStep)

\* ======================================================================
\* Properties
\* ======================================================================

\* the catalog entries the render of artifact k placed
PlacedImages(k) ==
    {c.index : c \in {d \in Range(placed_log[k]) : d.kind = "Image"}}
PlacedVideos(k) ==
    {c.index : c \in {d \in Range(placed_log[k]) : d.kind = "Video"}}
\* the indices of a half-open window <<start, end>>
Window(r) == {i \in 0..(MaxImages + MaxVideos + 1) : r[1] <= i /\ i < r[2]}
Stores == {renders_heap, heap_file}

\* C1: no image or video is placed by two different renders of one store
\* (the Records of the store in memory, hydrated or not, are the renders of
\* one sequence): the placements of any two of them are disjoint.
C1_NoReuse ==
    \A i, j \in 1..Len(renders_heap) :
        i < j =>
            /\ PlacedImages(renders_heap[i].main_key)
                   \cap PlacedImages(renders_heap[j].main_key) = {}
            /\ PlacedVideos(renders_heap[i].main_key)
                   \cap PlacedVideos(renders_heap[j].main_key) = {}

\* C2: tiling: in the store (in memory and in the file) each Record's image
\* window and video window start where the previous Record's ended.
C2_Tiling ==
    \A h \in Stores : \A i \in 1..(Len(h) - 1) :
        /\ h[i + 1].images_range[1] = h[i].images_range[2]
        /\ h[i + 1].videos_range[1] = h[i].videos_range[2]

C2_Witness ==
    /\ restarts > 0
    /\ Len(renders_heap) >= 2
    /\ Len(heap_file) >= 2
    /\ renders_heap[2].images_range[1] > 0


\* the first render of the scenario of 3 images, 8 s intervals and 20 s audio
C3_Scenario ==
    /\ Len(image_files) = 3
    /\ video_files = <<>>
    /\ interval_duration = 8
    /\ ctor_audio_index < Len(audio_files)
    /\ audio_files[ctor_audio_index + 1] = 20000
    /\ restarts = 0
    /\ Len(renders_heap) = 1
    /\ clock = 1

\* C3: with an empty store, 3 images, interval 8 s, an audio of 20 s and no
\* videos, the first render places the images at 0, 8 and 16 s and pushes a
\* Record with images_range [0,3) and videos_range [0,0); and the image
\* window of every Record holds every image its render placed.
C3_AllocationOnExhaustion ==
    /\ C3_Scenario =>
           /\ placed_log[1] =
                  <<[kind |-> "Image", index |-> 0, start |-> 0, duration |-> 8000],
                    [kind |-> "Image", index |-> 1, start |-> 8000, duration |-> 8000],
                    [kind |-> "Image", index |-> 2, start |-> 16000, duration |-> 8000]>>
           /\ renders_heap[1].images_range = <<0, 3>>
           /\ renders_heap[1].videos_range = <<0, 0>>
    /\ \A i \in 1..Len(renders_heap) :
           PlacedImages(renders_heap[i].main_key)
               \subseteq Window(renders_heap[i].images_range)

\* the media not yet consumed after datum, and the images its next audio needs
RemainingMedia(datum) ==
    (Len(image_files) + Len(video_files))
        - (datum.images_range[2] + datum.videos_range[2])
MinimumImagesNeeded(datum) ==
    audio_files[datum.audio_index + 1] \div (MsPerSecond * interval_duration)

\* C4: when a previous Record exists, the exhaustion check has passed, the
\* next audio asset exists and the media not yet consumed (catalog total
\* minus the images and the videos consumed so far) minus
\* floor(audio seconds / interval) is <= 0, the attempt fails with
\* InsufficientMediaError at the sufficiency check.
C4_SufficiencyCheck ==
    ( /\ trace # <<>>
      /\ "sufficiency" \in Range(trace)
      /\ ~interrupted
      /\ Last(heap_before).audio_index < Len(audio_files)
      /\ RemainingMedia(Last(heap_before))
             - MinimumImagesNeeded(Last(heap_before)) <= 0 )
    => /\ pc = "returned"
       /\ error = InsufficientMediaError
       /\ "renderer" \notin Range(trace)

\* C5: when the most recent Record has an empty image window and an empty
\* video window, the next attempt stops at the exhaustion check with
\* ExhaustionError: the sufficiency check, the audio lookup and the
\* Renderer are not reached.
C5_ExhaustionDetection ==
    ( /\ trace # <<>>
      /\ heap_before # <<>>
      /\ Last(heap_before).images_range[2] = Last(heap_before).images_range[1]
      /\ Last(heap_before).videos_range[2] = Last(heap_before).videos_range[1] )
    => /\ trace = <<"peek", "out_of_media">>
       /\ pc = "returned"
       /\ error = ExhaustionError
       /\ renders_heap = heap_before

C5_Witness ==
    /\ pc = "returned"
    /\ error = ExhaustionError
    /\ Last(heap_before).images_range[2] > 0


\* the store in memory was empty when this process was constructed
StoreBeganEmpty == restarts = 0 \/ dont_load_renders_heap

\* C6: every Record's next audio index is the index of the audio it used
\* plus one; each Record used the audio at the previous Record's next audio
\* index; and the k Records of a store that began empty, in a process
\* constructed with audio_index a, used the audios a, a+1, ..., a+k-1.
C6_MonotonicAudioIndex ==
    /\ \A h \in Stores :
           /\ \A i \in 1..Len(h) : h[i].audio_index = h[i].audio + 1
           /\ \A i \in 1..(Len(h) - 1) : h[i + 1].audio = h[i].audio_index
    /\ StoreBeganEmpty =>
           \A i \in 1..Len(renders_heap) :
               renders_heap[i].audio = ctor_audio_index + (i - 1)

C6_Witness ==
    /\ StoreBeganEmpty
    /\ Len(renders_heap) >= 2
    /\ Len(heap_file) >= 2

\* C7: a process that hydrates the store from the file goes on, in its first
\* render, from the audio index and the window ends the previous process
\* would have gone on from; the constructor's audio_index is the one used
\* exactly when the store is empty.
C7_ResumptionEquivalence ==
    pc = "audio" =>
        /\ expected_next # <<>> =>
               /\ audio_index = expected_next[1][1]
               /\ image_files_range[2] = expected_next[1][2][2]
               /\ video_files_range[2] = expected_next[1][3][2]
        /\ renders_heap = <<>> => audio_index = ctor_audio_index
        /\ renders_heap # <<>> => audio_index = Last(renders_heap).audio_index

C7_Witness ==
    /\ pc = "audio"
    /\ expected_next # <<>>
    /\ restarts > 0
    /\ audio_index # ctor_audio_index
    /\ image_files_range[2] + video_files_range[2] > 0

\* the errors that end an attempt, other than an interrupt
SchedulingFailures ==
    {ExhaustionError, InsufficientMediaError, AudioExhaustedError,
     AudioIndexError, NoClipsError, RenderFailure}

\* C8: an attempt that ends in ExhaustionError, InsufficientMediaError, a
\* missing audio asset, an empty list of clips or a Renderer failure leaves
\* the store in memory and the file as they were when the attempt began.
C8_FailureNeverPushes ==
    (pc = "returned" /\ error \in SchedulingFailures) =>
        /\ renders_heap = heap_before
        /\ heap_file = file_before

C8_Witness ==
    /\ pc = "returned"
    /\ error = RenderFailure
    /\ continuous
    /\ Len(renders_heap) > run_heap_base
    /\ renders_heap = heap_file

\* C9: after a successful single-shot render() of an object that did not load
\* the store, into an empty output directory, the render queue has received
\* exactly one entry, the path of the artifact, and the output directory
\* holds exactly one artifact.
C9_SingleShotQueue ==
    ( /\ pc = "returned"
      /\ ~continuous
      /\ error = NoError
      /\ dont_load_renders_heap
      /\ Len(renders_heap) = 1
      /\ clock = 1 )
    => /\ put_log = <<Last(renders_heap).main_key>>
       /\ Cardinality(output_dir) = 1

\* the keys pushed, and the identifiers put, after the first `from`
KeysFrom(h, from) == [i \in 1..(Len(h) - from) |-> h[from + i].main_key]
PutsFrom(log, from) == [i \in 1..(Len(log) - from) |-> log[from + i]]

\* C10: in a continuous run, between iterations and after the loop stopped on
\* an error, the identifiers put on the queue in this run are the artifact
\* keys of the Records pushed in this run, in push order; and the put is
\* enabled whatever the queue holds.
C10_QueueFollowsPushes ==
    /\ ( /\ continuous
         /\ \/ pc = "render_start"
            \/ pc = "returned" /\ error \in SchedulingFailures )
       => PutsFrom(put_log, run_put_base)
              = KeysFrom(renders_heap, run_heap_base)
    /\ pc = "put" => ENABLED QueuePut

C10_Witness ==
    /\ continuous
    /\ pc = "returned"
    /\ error \in SchedulingFailures
    /\ Len(put_log) - run_put_base >= 2
    /\ render_queue # <<>>


\* the errors of the feasibility checks and of the audio lookup
TerminalExhausted ==
    {ExhaustionError, InsufficientMediaError, AudioExhaustedError,
     AudioIndexError, NoClipsError}

\* C11: a continuous run ends: every Record used an audio of the (finite)
\* catalog, so the loop renders no more often than there are audios, and
\* once in the loop render() comes to return; when it stopped on
\* exhaustion, insufficient media or a missing audio it returned normally.
C11_ContinuousTerminates ==
    /\ [](\A i \in 1..Len(renders_heap) :
              renders_heap[i].audio < Len(audio_files))
    /\ [](continuous => Len(renders_heap) - run_heap_base <= Len(audio_files))
    /\ []((pc = "returned" /\ continuous /\ error \in TerminalExhausted)
              => ~propagated)
    /\ (continuous /\ pc \in InCall) ~> (pc = "returned")

C11_Witness ==
    /\ continuous
    /\ pc = "returned"
    /\ error \in {ExhaustionError, InsufficientMediaError, AudioExhaustedError}
    /\ ~propagated
    /\ Len(renders_heap) - run_heap_base >= 1

\* the audio index the attempt that began on heap_before is to use
NextAudioIndex ==
    IF heap_before = <<>> THEN audio_index ELSE Last(heap_before).audio_index

\* C12: when the audio index the attempt is to use is outside the audio
\* catalog, the attempt that reaches the audio lookup (of the sufficiency
\* check, or of the audio clip) fails with AudioExhaustedError, for an empty
\* store as for a store with a last Record; a single-shot render() raises it
\* to its caller.
C12_AudioExhausted ==
    ( /\ trace # <<>>
      /\ ~interrupted
      /\ "sufficiency" \in Range(trace) \/ "audio" \in Range(trace)
      /\ NextAudioIndex >= Len(audio_files) )
    => /\ pc = "returned"
       /\ error = AudioExhaustedError
       /\ ~continuous => propagated

\* C13: the heap file is append-only: once an attempt has saved the heap, the
\* file holds what it held when the attempt began followed by one Record.
C13_FileAppendOnly ==
    "serialize" \in Range(trace) =>
        /\ Len(heap_file) = Len(file_before) + 1
        /\ SubSeq(heap_file, 1, Len(file_before)) = file_before

\* C14: once a continuous run has stopped, whatever stopped it, every Record
\* of the store in memory is in the file: the two hold the same Records.
C14_CancellationBetweenRenders ==
    (pc = "returned" /\ continuous) => renders_heap = heap_file

\* C15: the clips of one render: images first, then videos, on one clock that
\* starts at 0; each clip starts where the one before it ended (an image
\* lasts the interval, a video its own duration), and every clip starts
\* strictly before the audio ends.
C15_PlacementTimeline ==
    pc = "composite" =>
        /\ Len(clips) > 0 => clips[1].start = 0
        /\ \A j \in 1..(Len(clips) - 1) :
               /\ clips[j + 1].start = clips[j].start + clips[j].duration
               /\ clips[j].kind = "Video" => clips[j + 1].kind = "Video"
        /\ \A j \in 1..Len(clips) :
               /\ clips[j].start < max_duration
               /\ clips[j].kind = "Image" =>
                      clips[j].duration = interval_duration * MsPerSecond
               /\ clips[j].kind = "Video" =>
                      clips[j].duration = video_files[clips[j].index + 1]

\* the end of the window of a walk that began at start and placed n entries
\* of a catalog of len entries: the entry after the last one placed when
\* there is one (the walk stopped there), else the last entry placed, and
\* start when there is no entry at or after start
LastVisited(start, n, len) ==
    IF start >= len THEN start
    ELSE IF start + n < len THEN start + n ELSE len - 1

\* C16: in every Record of the store (in memory and in the file) each window
\* is [start, last]: its render placed the entries start, start+1, ... in
\* order and last is the index of the last entry its walk visited, placed or
\* not; last = start when the catalog has no entry at or after start.
C16_WindowEndPolicy ==
    \A h \in Stores : \A i \in 1..Len(h) :
        LET r == h[i]
            imgs == PlacedImages(r.main_key)
            vids == PlacedVideos(r.main_key)
        IN  /\ imgs = {k \in 0..(Len(image_files) - 1) :
                           /\ r.images_range[1] <= k
                           /\ k < r.images_range[1] + Cardinality(imgs)}
            /\ vids = {k \in 0..(Len(video_files) - 1) :
                           /\ r.videos_range[1] <= k
                           /\ k < r.videos_range[1] + Cardinality(vids)}
            /\ r.images_range[2] =
                   LastVisited(r.images_range[1], Cardinality(imgs),
                               Len(image_files))
            /\ r.videos_range[2] =
                   LastVisited(r.videos_range[1], Cardinality(vids),
                               Len(video_files))

\* a Record whose image walk stopped at an image it did not place, whose
\* video walk found no video, and a later Record whose walk ran off the end
C16_Witness ==
    /\ Len(renders_heap) >= 2
    /\ renders_heap[1].images_range[2] > renders_heap[1].images_range[1]
    /\ Cardinality(PlacedImages(renders_heap[1].main_key))
           = renders_heap[1].images_range[2] - renders_heap[1].images_range[1]
    /\ Cardinality(PlacedImages(renders_heap[2].main_key))
           > renders_heap[2].images_range[2] - renders_heap[2].images_range[1]
    /\ renders_heap[1].videos_range = <<0, 0>>

\* C17: every Record of the store has consumed at least one entry: its image
\* window or its video window is not empty.
C17_RecordConsumes ==
    \A i \in 1..Len(renders_heap) :
        \/ renders_heap[i].images_range[2] > renders_heap[i].images_range[1]
        \/ renders_heap[i].videos_range[2] > renders_heap[i].videos_range[1]

\* where the walks of the attempt that began on heap_before are to start
ExpectedStart(field) ==
    IF heap_before = <<>> THEN 0 ELSE Last(heap_before)[field][2]

\* C18: when an attempt comes to its walks the clock is 0 and the walks
\* start at the window ends of the last Record, or at 0 for an empty store,
\* also when the attempt follows a failed one on the same object.
C18_CleanContext ==
    pc = "clips" =>
        /\ vid_time = 0
        /\ image_files_range[2] = ExpectedStart("images_range")
        /\ video_files_range[2] = ExpectedStart("videos_range")

\* C19: in every Record of the store (in memory and in the file)
\* 0 <= start <= end <= size of the catalog, for the image window and for
\* the video window.
C19_WindowBounds ==
    \A h \in Stores : \A i \in 1..Len(h) :
        /\ 0 <= h[i].images_range[1]
        /\ h[i].images_range[1] <= h[i].images_range[2]
        /\ h[i].images_range[2] <= Len(image_files)
        /\ 0 <= h[i].videos_range[1]
        /\ h[i].videos_range[1] <= h[i].videos_range[2]
        /\ h[i].videos_range[2] <= Len(video_files)

C19_Witness ==
    /\ Len(renders_heap) >= 2
    /\ Len(heap_file) >= 2
    /\ Last(renders_heap).images_range[1] > 0
    /\ Last(renders_heap).images_range[2] = Len(image_files) - 1
    /\ Last(renders_heap).videos_range[2] > Last(renders_heap).videos_range[1]

=============================================================================
